---- MODULE Spec2Model ----
(***************************************************************************)
(* A model of the synthpops workplace and contact-network generation:      *)
(*   - generate_workplace_sizes            (src/synthpops/workplaces.py)   *)
(*   - assign_rest_of_workers              (src/synthpops/workplaces.py)   *)
(*   - create_reduced_contacts_with_group_types                            *)
(*                                   (src/synthpops/contact_networks.py)   *)
(*   - make_contacts_from_microstructure_objects                           *)
(*                                   (src/synthpops/contact_networks.py)   *)
(*   - get_uids_potential_workers, get_workers_by_age_to_assign            *)
(*                                   (src/synthpops/workplaces.py)         *)
(*     and the worker pipeline of Pop.generate (src/synthpops/pop.py)      *)
(* Every function is a little state machine over the same variables; the   *)
(* specification of one function keeps the variables of the others idle.   *)
(* Probabilities are modelled by their support: a weighted draw may return *)
(* any outcome of positive weight.                                         *)
(***************************************************************************)
EXTENDS Integers, Sequences, FiniteSets, TLC

\* ------------------------------------------------------------------ bounds
\* The largest number of people (uids) in a population.
MaxUids == 5
\* The largest size a workplace-size bracket may hold.
MaxSize == 3
\* The number of people in popdict (the two groups are taken among them).
MaxPersons == 5
\* The largest average_degree passed to the graph builder.
MaxDegree == 3
\* The largest number of people in two groups of which the second has two or
\* more members (the graphs drawn from the stochastic block model).
MaxBlockNodes == 4
\* The largest number of facilities.
MaxFacilities == 2
\* The largest cap on workplace contacts, max_contacts['W'].
MaxCap == 4
\* The largest number of people in a workplace.
MaxWorkplace == 4
\* The number of people in the population of the worker pipeline.
MaxPeople == 4

VARIABLES
    pc,                              \* the position in the function being run
    \* generate_workplace_sizes
    workplace_size_distr_by_bracket, \* bracket -> weight (a count, not normalized)
    workplace_size_brackets,         \* bracket -> set of sizes of the bracket
    nworkers,                        \* headcount still to cover
    workplace_sizes,                 \* the list of sizes (output; input of the allocator)
    \* assign_rest_of_workers
    workers_by_age_to_assign_count,  \* age -> people of that age left to assign
    potential_worker_uids,           \* the uids of the uid -> age map
    potential_worker_uids_by_age,    \* age -> list of uids (the pool of that age)
    W,                               \* contact_matrix_dic['W']: row -> column -> weight
    syn_workplaces,                  \* list of groups, as ages
    syn_workplace_uids,              \* list of groups, as uids
    new_work,                        \* the group being filled, as ages
    new_work_uids,                   \* the group being filled, as uids
    n,                               \* index of the group being filled (0-based)
    size,                            \* the clamped size of the group being filled
    i,                               \* the loop variable i: the slot being filled
                                     \* (range(1, size)), or the node of a graph loop
    bindex,                          \* the matrix row of the anchor's bracket
    b_prob,                          \* the row used for bracket draws
    loop_b_prob,                     \* the resampling loop's copy of b_prob
    bi,                              \* the bracket drawn
    hist,                            \* ghost: per group started, the people left to
                                     \* assign at its start (left), whether the drain
                                     \* branch filled it (drained), its bracket draws
                                     \* at line 202 (draws) and the slots for which
                                     \* nobody was drawn (skipped)
    \* create_reduced_contacts_with_group_types
    popdict,                         \* uid -> [contacts: layer -> set of uids]
    popdict0,                        \* ghost: popdict as it was passed in
    group_1,                         \* list of uids
    group_2,                         \* list of uids
    average_degree,
    p_matrix,                        \* None or block -> block -> edge probability
    force_cross_edges,
    G,                               \* the graph's edges over the nodes 0 .. n-1
    group_1_neighbors,               \* the neighbours a node may still cut
    ncut,                            \* the number of edges to cut at a node
    kcut,                            \* k of range(ncut): the cuts made at the node
    group_2_to_group_2_connections,  \* the group-2 nodes with a group-2 neighbour
    \* make_contacts_from_microstructure_objects
    homes_by_uids,                   \* list of households, each a list of uids
    workplaces_by_uids,              \* list of workplaces, each a list of uids
    facilities_by_uids,              \* list of facilities, each the list of its residents
    facilities_staff_uids,           \* list of facilities, each the list of its staff
    use_ltcf,                        \* facilities_by_uids is not None
    use_two_group_reduction,
    do_trim,                         \* max_contacts is not None
    max_contacts,                    \* max_contacts['W'] after the defaults are merged
    nf,                              \* index of the facility being read (0-based)
    nw,                              \* index of the workplace being sampled (0-based)
    nu,                              \* position in the workplace of the worker sampling
    \* get_uids_potential_workers, get_workers_by_age_to_assign, Pop.generate
    age_by_uid_dic,                  \* uid -> age, for everyone in the population
    syn_school_uids,                 \* list of schools, each the list of its students
    employment_rates,                \* age -> employment rate, in units of 1 / RateUnit
    potential_worker_ages_left_count \* age -> potential workers of that age

sizesVars == <<workplace_size_distr_by_bracket, workplace_size_brackets, nworkers>>

assignVars == <<workers_by_age_to_assign_count, potential_worker_uids,
                potential_worker_uids_by_age, W, syn_workplaces, syn_workplace_uids,
                new_work, new_work_uids, n, size, bindex, b_prob, loop_b_prob, bi,
                hist>>

graphVars == <<popdict, popdict0, group_1, group_2, average_degree, p_matrix,
               force_cross_edges, G, group_1_neighbors, ncut, kcut,
               group_2_to_group_2_connections>>

contactVars == <<homes_by_uids, workplaces_by_uids, facilities_by_uids,
                 facilities_staff_uids, use_ltcf, use_two_group_reduction, do_trim,
                 max_contacts, nf, nw, nu>>

poolVars == <<age_by_uid_dic, syn_school_uids, employment_rates,
              potential_worker_ages_left_count>>

vars == <<pc, i, workplace_sizes, sizesVars, assignVars, graphVars, contactVars,
          poolVars>>

\* ----------------------------------------------------------------- helpers
RECURSIVE SumSeq(_)
SumSeq(s) == IF s = <<>> THEN 0 ELSE Head(s) + SumSeq(Tail(s))

RECURSIVE SumOver(_, _)
SumOver(f, S) ==
    IF S = {} THEN 0
    ELSE LET x == CHOOSE y \in S : TRUE IN f[x] + SumOver(f, S \ {x})

Range(s) == {s[k] : k \in DOMAIN s}

\* The ages of the workers and their brackets (age_brackets: bracket -> ages,
\* age_by_brackets_dic: age -> bracket). Brackets are 0-based as in the source;
\* bracket b is age_brackets[b + 1]. The ages are ages for which
\* get_uids_potential_workers keeps a pool (15 and over).
age_brackets == <<(<<15, 16>>), (<<17>>)>>
Brackets == 0 .. (Len(age_brackets) - 1)
BracketAges(b) == age_brackets[b + 1]
Ages == UNION {Range(BracketAges(b)) : b \in Brackets}
age_by_brackets_dic == [a \in Ages |-> CHOOSE b \in Brackets : a \in Range(BracketAges(b))]

\* -------------------------------------------------- generate_workplace_sizes
\* The variables of generate_workplace_sizes when it is not the function run.
IdleSizes ==
    /\ workplace_size_distr_by_bracket = <<>>
    /\ workplace_size_brackets = <<>>
    /\ nworkers = 0

\* The variables of assign_rest_of_workers that generate_workplace_sizes does not read.
IdleAssignLocals ==
    /\ potential_worker_uids = {}
    /\ potential_worker_uids_by_age = <<>>
    /\ W = <<>>
    /\ syn_workplaces = <<>>
    /\ syn_workplace_uids = <<>>
    /\ new_work = <<>>
    /\ new_work_uids = <<>>
    /\ n = 0
    /\ size = 0
    /\ i = 0
    /\ bindex = 0
    /\ b_prob = <<>>
    /\ loop_b_prob = <<>>
    /\ bi = 0
    /\ hist = <<>>

\* Python's None, for an argument that is otherwise a matrix.
None == <<>>

\* The variables of create_reduced_contacts_with_group_types when it is not run.
IdleGraph ==
    /\ popdict = <<>>
    /\ popdict0 = <<>>
    /\ group_1 = <<>>
    /\ group_2 = <<>>
    /\ average_degree = 0
    /\ p_matrix = None
    /\ force_cross_edges = TRUE
    /\ G = {}
    /\ group_1_neighbors = {}
    /\ ncut = 0
    /\ kcut = 0
    /\ group_2_to_group_2_connections = {}

\* The variables of the worker pipeline of Pop.generate when it is not run.
IdlePool ==
    /\ age_by_uid_dic = <<>>
    /\ syn_school_uids = <<>>
    /\ employment_rates = <<>>
    /\ potential_worker_ages_left_count = <<>>

\* The variables of make_contacts_from_microstructure_objects when it is not run.
IdleContacts ==
    /\ homes_by_uids = <<>>
    /\ workplaces_by_uids = <<>>
    /\ facilities_by_uids = <<>>
    /\ facilities_staff_uids = <<>>
    /\ use_ltcf = FALSE
    /\ use_two_group_reduction = FALSE
    /\ do_trim = FALSE
    /\ max_contacts = 0
    /\ nf = 0
    /\ nw = 0
    /\ nu = 0

SizeBracketIds == 1 .. 2

\* Line 71: nworkers is the sum of the per-age counts.
\* Line 74: norm_dic keeps the support of the distribution; np.random.choice needs
\* a distribution that sums to 1, so some bracket has positive weight.
InitSizes ==
    /\ pc = "sizes_loop"
    /\ workers_by_age_to_assign_count \in [Ages -> 0 .. MaxUids]
    /\ SumOver(workers_by_age_to_assign_count, Ages) <= MaxUids
    /\ workplace_size_brackets \in [SizeBracketIds -> (SUBSET (1 .. MaxSize)) \ {{}}]
    /\ workplace_size_distr_by_bracket \in [SizeBracketIds -> 0 .. 1]
    /\ \E b \in SizeBracketIds : workplace_size_distr_by_bracket[b] > 0
    /\ nworkers = SumOver(workers_by_age_to_assign_count, Ages)
    /\ workplace_sizes = <<>>
    /\ IdleAssignLocals
    /\ IdleGraph
    /\ IdleContacts
    /\ IdlePool

\* CorrectLast without lines 86-87: the overshoot stays in the last size.
NoCorrection(sizes, left) == sizes

\* CorrectLast with the first size for the last: sizes[0] = sizes[0] + nworkers.
CorrectFirst(sizes, left) ==
    IF left < 0
    THEN [sizes EXCEPT ![1] = sizes[1] + left]
    ELSE sizes

\* Lines 86-87: the last size is reduced by the overshoot.
CorrectLast(sizes, left) ==
    IF left < 0
    THEN [sizes EXCEPT ![Len(sizes)] = sizes[Len(sizes)] + left]
    ELSE sizes

\* Lines 81-85: one pass of the while loop.
DrawSize ==
    /\ pc = "sizes_loop"
    /\ nworkers > 0
    /\ \E size_bracket \in SizeBracketIds :
         /\ workplace_size_distr_by_bracket[size_bracket] > 0
         /\ \E sz \in workplace_size_brackets[size_bracket] :
              /\ nworkers' = nworkers - sz
              /\ workplace_sizes' = Append(workplace_sizes, sz)
    /\ UNCHANGED <<pc, i, poolVars, workplace_size_distr_by_bracket, workplace_size_brackets,
                   assignVars, graphVars, contactVars>>

\* The orders np.random.shuffle can leave a list in.
Shuffles(s) ==
    {[k \in 1 .. Len(s) |-> s[p[k]]] : p \in Permutations(1 .. Len(s))}

\* Lines 86-89: the loop has ended; correct the overshoot, shuffle, return.
FinishSizes ==
    /\ pc = "sizes_loop"
    /\ nworkers <= 0
    /\ workplace_sizes' \in Shuffles(CorrectLast(workplace_sizes, nworkers))
    /\ pc' = "sizes_done"
    /\ UNCHANGED <<i, sizesVars, poolVars, assignVars, graphVars, contactVars>>

NextSizes == DrawSize \/ FinishSizes

SpecSizes == InitSizes /\ [][NextSizes]_vars

\* C1: when generate_workplace_sizes returns, the sizes sum to exactly the
\* headcount N (the sum of the per-age counts passed in), and for N = 0 the
\* returned list is empty.
C1_SizesSumToHeadcount ==
    pc = "sizes_done" =>
        /\ SumSeq(workplace_sizes) = SumOver(workers_by_age_to_assign_count, Ages)
        /\ (SumOver(workers_by_age_to_assign_count, Ages) = 0 => workplace_sizes = <<>>)

\* A return after an overshoot of the headcount, with more than one size drawn.
C1_Witness ==
    /\ pc = "sizes_done"
    /\ nworkers < 0
    /\ Len(workplace_sizes) >= 2

\* ---------------------------------------------------- assign_rest_of_workers
\* The matrix may have fewer rows and columns than there are age brackets
\* (lines 149 and 176 clamp the bracket to the matrix's shape).
MatrixDims == {Len(age_brackets) - 1, Len(age_brackets)}

Min(x, y) == IF x < y THEN x ELSE y

\* contact_matrix_dic['W'].shape
NRows(M) == Cardinality(DOMAIN M)
NCols(M) == Cardinality(DOMAIN M[0])

\* The uid before the first uid of age a when the ages' pools hold psz[a]
\* consecutive uids each.
PoolStart(psz, a) == SumOver(psz, {x \in Ages : x < a})

\* The lists of sizes >= 1 that sum to t (what generate_workplace_sizes returns
\* for a headcount of t).
RECURSIVE Compositions(_)
Compositions(t) ==
    IF t = 0 THEN {<<>>}
    ELSE UNION {{<<f>> \o c : c \in Compositions(t - f)} : f \in 1 .. t}

\* The number of people left to assign, over all ages (line 184) or over the
\* ages of bracket b (lines 146-147, 224).
WorkersLeft(count) == SumOver(count, Ages)
WorkersLeftInBracket(count, b) == SumOver(count, Range(BracketAges(b)))

\* Lines 204 and 211: the people left in bracket b, counting only ages with a
\* non-empty pool.
WorkersLeftWithPool(count, pool, b) ==
    SumOver(count, {a \in Range(BracketAges(b)) : Len(pool[a]) > 0})

PoolTotal(pool) == SumOver([a \in Ages |-> Len(pool[a])], Ages)

\* contact_matrix_dic['W'][:, cols] = 0
ZeroColumns(M, cols) ==
    [r \in DOMAIN M |-> [c \in DOMAIN M[r] |-> IF c \in cols THEN 0 ELSE M[r][c]]]

\* spsamp.fast_choice(weights): an index of positive weight; with no positive
\* weight the index returned is left open (any index of the array).
fast_choice(weights) ==
    IF \E k \in DOMAIN weights : weights[k] > 0
    THEN {k \in DOMAIN weights : weights[k] > 0}
    ELSE DOMAIN weights

\* The pools of the ages, the counts to assign (at most the pool of the age, as
\* get_workers_by_age_to_assign's min() makes them), the uid -> age map (which
\* may hold people of an age that has no pool), sizes that sum to the headcount,
\* and a 0/1 matrix. Uids are numbered pool by pool.
InitAssign ==
    /\ pc = "assign_entry"
    /\ IdleSizes
    /\ \E psz \in [Ages -> 0 .. MaxUids] :
         /\ SumOver(psz, Ages) <= MaxUids
         /\ potential_worker_uids_by_age =
                [a \in Ages |-> [k \in 1 .. psz[a] |-> PoolStart(psz, a) + k]]
         /\ workers_by_age_to_assign_count \in
                {c \in [Ages -> 0 .. MaxUids] : \A a \in Ages : c[a] <= psz[a]}
         /\ \E K \in SumOver(psz, Ages) .. MaxUids : potential_worker_uids = 1 .. K
    /\ workplace_sizes \in Compositions(WorkersLeft(workers_by_age_to_assign_count))
    /\ \E d \in MatrixDims : W \in [0 .. (d - 1) -> [0 .. (d - 1) -> 0 .. 1]]
    /\ syn_workplaces = <<>>
    /\ syn_workplace_uids = <<>>
    /\ new_work = <<>>
    /\ new_work_uids = <<>>
    /\ n = 0
    /\ size = 0
    /\ i = 0
    /\ bindex = 0
    /\ b_prob = <<>>
    /\ loop_b_prob = <<>>
    /\ bi = 0
    /\ hist = <<>>
    /\ IdleGraph
    /\ IdleContacts
    /\ IdlePool

\* Lines 145-150: the columns of the brackets with nobody to assign are zeroed.
ZeroEmptyBrackets ==
    /\ pc = "assign_entry"
    /\ W' = ZeroColumns(W, {Min(b, NCols(W) - 1) :
                b \in {x \in Brackets :
                        WorkersLeftInBracket(workers_by_age_to_assign_count, x) = 0}})
    /\ pc' = "assign_group"
    /\ UNCHANGED <<graphVars, contactVars, workplace_sizes, sizesVars, poolVars, workers_by_age_to_assign_count,
                   potential_worker_uids, potential_worker_uids_by_age, syn_workplaces,
                   syn_workplace_uids, new_work, new_work_uids, n, size, i, bindex,
                   b_prob, loop_b_prob, bi, hist>>

\* Lines 153-157: the loop over the sizes stops when nobody is left to assign or
\* every pool is empty.
LoopBreaks ==
    \/ WorkersLeft(workers_by_age_to_assign_count) = 0
    \/ PoolTotal(potential_worker_uids_by_age) = 0

\* TakeFirst without lines 168, 195, 218: the uid stays in its pool.
KeepFirst(pool, a) == pool

\* Lines 167-168, 192-195, 215-218: the first uid of the age's pool is taken out.
TakeFirst(pool, a) == [pool EXCEPT ![a] = Tail(@)]

\* Lines 182-186: the size of the group, clamped by the uid map and by the people left.
ClampSize(sz, nuids, left) ==
    LET s1 == IF sz > nuids - 1 THEN nuids - 1 ELSE sz
    IN IF s1 > left THEN left + 1 ELSE s1

\* Line 189: the rest of the people go to this group.
DrainCondition(nuids, left, sz) == nuids <= sz \/ left <= sz

\* Lines 152-189: a group starts; its anchor is picked and its size clamped.
StartGroup ==
    /\ pc = "assign_group"
    /\ n < Len(workplace_sizes)
    /\ ~LoopBreaks
    /\ \E achoice \in {a \in Ages : workers_by_age_to_assign_count[a] > 0} :
         LET uid   == potential_worker_uids_by_age[achoice][1]
             puids == potential_worker_uids \ {uid}
             count == [workers_by_age_to_assign_count EXCEPT ![achoice] = @ - 1]
             row   == Min(age_by_brackets_dic[achoice], NRows(W) - 1)
             left  == WorkersLeft(count)
             sz    == ClampSize(workplace_sizes[n + 1], Cardinality(puids), left)
         IN /\ potential_worker_uids_by_age' = TakeFirst(potential_worker_uids_by_age, achoice)
            /\ potential_worker_uids' = puids
            /\ workers_by_age_to_assign_count' = count
            /\ new_work' = <<achoice>>
            /\ new_work_uids' = <<uid>>
            /\ bindex' = row
            /\ b_prob' = W[row]
            /\ size' = sz
            /\ hist' = Append(hist, [left |-> left + 1, drained |-> FALSE, draws |-> 0, skipped |-> 0])
            /\ pc' = IF DrainCondition(Cardinality(puids), left, sz)
                     THEN "assign_drain" ELSE "assign_slots"
    /\ i' = 1
    /\ UNCHANGED <<graphVars, contactVars, workplace_sizes, sizesVars, poolVars, W, syn_workplaces, syn_workplace_uids, n,
                   loop_b_prob, bi>>

\* The first k elements of a list.
FirstK(s, k) == SubSeq(s, 1, k)

\* DrainAges without line 193: the ages of the people drained are not recorded.
DrainNoAges(count, S, upto) == <<>>

RECURSIVE DrainAges(_, _, _)
\* Lines 190-196 for the ages of S in ascending order: the ages placed.
DrainAges(count, S, upto) ==
    IF upto \notin S /\ \A a \in S : a < upto THEN <<>>
    ELSE (IF upto \in S THEN [k \in 1 .. count[upto] |-> upto] ELSE <<>>)
         \o DrainAges(count, S, upto + 1)

RECURSIVE DrainUids(_, _, _, _)
\* Lines 190-196 for the ages of S in ascending order: the uids placed.
DrainUids(count, pool, S, upto) ==
    IF upto \notin S /\ \A a \in S : a < upto THEN <<>>
    ELSE (IF upto \in S THEN FirstK(pool[upto], count[upto]) ELSE <<>>)
         \o DrainUids(count, pool, S, upto + 1)

\* Lines 189-198 and 234-235: everyone left to assign is placed in this group,
\* age by age, and the group is appended.
Drain ==
    /\ pc = "assign_drain"
    /\ LET ages == DrainAges(workers_by_age_to_assign_count, Ages, 0)
           uids == DrainUids(workers_by_age_to_assign_count,
                             potential_worker_uids_by_age, Ages, 0)
       IN /\ syn_workplaces' = Append(syn_workplaces, new_work \o ages)
          /\ syn_workplace_uids' = Append(syn_workplace_uids, new_work_uids \o uids)
          /\ potential_worker_uids' = potential_worker_uids \ Range(uids)
          /\ potential_worker_uids_by_age' =
                 [a \in Ages |-> SubSeq(potential_worker_uids_by_age[a],
                                        workers_by_age_to_assign_count[a] + 1,
                                        Len(potential_worker_uids_by_age[a]))]
    /\ workers_by_age_to_assign_count' = [a \in Ages |-> 0]
    /\ hist' = [hist EXCEPT ![Len(hist)].drained = TRUE]
    /\ new_work' = <<>>
    /\ new_work_uids' = <<>>
    /\ n' = n + 1
    /\ pc' = "assign_group"
    /\ UNCHANGED <<graphVars, contactVars, workplace_sizes, sizesVars, poolVars, W, size, i, bindex, b_prob, loop_b_prob, bi>>

\* Lines 200-206: a slot of the group; a bracket is drawn from b_prob. With a
\* row of zero sum nobody is drawn for the slot.
DrawBracket ==
    /\ pc = "assign_slots"
    /\ i < size
    /\ \E b \in fast_choice(b_prob) : bi' = b
    /\ IF \E k \in DOMAIN b_prob : b_prob[k] > 0
       THEN /\ loop_b_prob' = b_prob
            /\ pc' = "assign_resample"
            /\ hist' = [hist EXCEPT ![Len(hist)].draws = @ + 1]
       ELSE /\ loop_b_prob' = loop_b_prob
            /\ pc' = "assign_check"
            /\ hist' = [hist EXCEPT ![Len(hist)].draws = @ + 1,
                                    ![Len(hist)].skipped = @ + 1]
    /\ UNCHANGED <<graphVars, contactVars, workplace_sizes, sizesVars, poolVars, workers_by_age_to_assign_count,
                   potential_worker_uids, potential_worker_uids_by_age, W, syn_workplaces,
                   syn_workplace_uids, new_work, new_work_uids, n, size, i, bindex, b_prob>>

\* Lines 208-211: the bracket drawn has nobody left; it is struck from the copy
\* and another bracket is drawn.
Resample ==
    /\ pc = "assign_resample"
    /\ WorkersLeftWithPool(workers_by_age_to_assign_count,
                           potential_worker_uids_by_age, bi) = 0
    /\ LET struck == [loop_b_prob EXCEPT ![bi] = 0]
       IN /\ loop_b_prob' = struck
          /\ \E b \in fast_choice(struck) : bi' = b
    /\ UNCHANGED <<graphVars, contactVars, pc, workplace_sizes, sizesVars, poolVars, workers_by_age_to_assign_count,
                   potential_worker_uids, potential_worker_uids_by_age, W, syn_workplaces,
                   syn_workplace_uids, new_work, new_work_uids, n, size, i, bindex, b_prob,
                   hist>>

\* Lines 212-221: an age of the bracket is drawn by its count, and the first uid
\* of its pool joins the group.
Place ==
    /\ pc = "assign_resample"
    /\ WorkersLeftWithPool(workers_by_age_to_assign_count,
                           potential_worker_uids_by_age, bi) # 0
    /\ \E k \in fast_choice([j \in 1 .. Len(BracketAges(bi)) |->
                                workers_by_age_to_assign_count[BracketAges(bi)[j]]]) :
         LET ai  == BracketAges(bi)[k]
             uid == potential_worker_uids_by_age[ai][1]
         IN /\ new_work' = Append(new_work, ai)
            /\ new_work_uids' = Append(new_work_uids, uid)
            /\ potential_worker_uids_by_age' = TakeFirst(potential_worker_uids_by_age, ai)
            /\ potential_worker_uids' = potential_worker_uids \ {uid}
            /\ workers_by_age_to_assign_count' =
                   [workers_by_age_to_assign_count EXCEPT ![ai] = @ - 1]
    /\ pc' = "assign_check"
    /\ UNCHANGED <<graphVars, contactVars, workplace_sizes, sizesVars, poolVars, W, syn_workplaces, syn_workplace_uids, n,
                   size, i, bindex, b_prob, loop_b_prob, bi, hist>>

\* Lines 223-230: when the bracket drawn has nobody left its column is zeroed
\* and the row is read again; the slot is done.
CheckBracket ==
    /\ pc = "assign_check"
    /\ IF WorkersLeftInBracket(workers_by_age_to_assign_count, bi) = 0
       THEN /\ W' = ZeroColumns(W, {bi})
            /\ b_prob' = ZeroColumns(W, {bi})[bindex]
       ELSE UNCHANGED <<W, b_prob>>
    /\ i' = i + 1
    /\ pc' = "assign_slots"
    /\ UNCHANGED <<graphVars, contactVars, workplace_sizes, sizesVars, poolVars, workers_by_age_to_assign_count,
                   potential_worker_uids, potential_worker_uids_by_age, syn_workplaces,
                   syn_workplace_uids, new_work, new_work_uids, n, size, bindex,
                   loop_b_prob, bi, hist>>

\* Lines 200 and 234-235: the slots are done; the group is appended.
EndGroup ==
    /\ pc = "assign_slots"
    /\ i >= size
    /\ syn_workplaces' = Append(syn_workplaces, new_work)
    /\ syn_workplace_uids' = Append(syn_workplace_uids, new_work_uids)
    /\ new_work' = <<>>
    /\ new_work_uids' = <<>>
    /\ n' = n + 1
    /\ pc' = "assign_group"
    /\ UNCHANGED <<graphVars, contactVars, workplace_sizes, sizesVars, poolVars, workers_by_age_to_assign_count,
                   potential_worker_uids, potential_worker_uids_by_age, W, size, i, bindex,
                   b_prob, loop_b_prob, bi, hist>>

\* Lines 152-157 and 236: the sizes are used up, or the loop breaks; return.
ReturnGroups ==
    /\ pc = "assign_group"
    /\ n >= Len(workplace_sizes) \/ LoopBreaks
    /\ pc' = "assign_done"
    /\ UNCHANGED <<i, workplace_sizes, sizesVars, poolVars, assignVars, graphVars, contactVars>>

NextAssign ==
    \/ ZeroEmptyBrackets
    \/ StartGroup
    \/ Drain
    \/ DrawBracket
    \/ Resample
    \/ Place
    \/ CheckBracket
    \/ EndGroup
    \/ ReturnGroups

SpecAssign == InitAssign /\ [][NextAssign]_vars

\* ------------------------------------------------ claims: assign_rest_of_workers
RECURSIVE Flatten(_)
Flatten(ss) == IF ss = <<>> THEN <<>> ELSE Head(ss) \o Flatten(Tail(ss))

NoDuplicates(s) == \A x, y \in DOMAIN s : x # y => s[x] # s[y]

\* Every uid placed so far, group by group, the group being filled last.
PlacedUids == Flatten(syn_workplace_uids) \o new_work_uids

PooledUids == UNION {Range(potential_worker_uids_by_age[a]) : a \in Ages}

\* The pools hold exactly the people to assign, age by age. Every step takes a
\* uid out of a pool and one off the age's count together, so this is true of a
\* state of a run iff it was true of the run's input.
PoolIsExactlyThePeopleToAssign ==
    \A a \in Ages :
        workers_by_age_to_assign_count[a] = Len(potential_worker_uids_by_age[a])

\* C2: the groups returned are a set partition of the input pool. Stated for the
\* case the claim names, a pool that holds exactly the people to assign, and for
\* runs in which no slot was passed over: on return no pooled uid is left
\* outside the groups, and no uid is in the groups twice.
C2_GroupsPartitionPool ==
    ( /\ pc = "assign_done"
      /\ PoolIsExactlyThePeopleToAssign
      /\ \A k \in DOMAIN hist : hist[k].skipped = 0 )
    => /\ PooledUids = {}
       /\ NoDuplicates(PlacedUids)

\* C3: at every step the per-age pools are duplicate-free and pairwise disjoint,
\* no uid is placed twice (in two groups or twice in one), and a placed uid is
\* no longer in a pool nor in the uid-to-age map.
C3_NoUidTwice ==
    /\ \A a \in Ages : NoDuplicates(potential_worker_uids_by_age[a])
    /\ \A a, b \in Ages :
         a # b => Range(potential_worker_uids_by_age[a])
                    \cap Range(potential_worker_uids_by_age[b]) = {}
    /\ NoDuplicates(PlacedUids)
    /\ Range(PlacedUids) \cap (PooledUids \cup potential_worker_uids) = {}

\* A return after an anchor pick, a within-group draw and a drain have all placed people.
C3_Witness ==
    /\ pc = "assign_done"
    /\ \E k \in DOMAIN hist : hist[k].drained /\ Len(syn_workplace_uids[k]) >= 2
    /\ \E k \in DOMAIN hist : ~hist[k].drained /\ Len(syn_workplace_uids[k]) >= 2

\* C4: every returned group has at most as many members as the size requested
\* for it, and at most as many as there were people to assign when it started.
C4_GroupWithinTarget ==
    \A k \in DOMAIN syn_workplace_uids :
        /\ Len(syn_workplace_uids[k]) <= workplace_sizes[k]
        /\ Len(syn_workplace_uids[k]) <= hist[k].left

\* C5: a group at whose start the people left to assign were no more than its
\* requested size holds all of them, was filled without a bracket draw, leaves
\* every count at 0 and is the last group.
C5_DrainTakesEveryone ==
    \A k \in DOMAIN syn_workplace_uids :
        hist[k].left <= workplace_sizes[k] =>
            /\ Len(syn_workplace_uids[k]) = hist[k].left
            /\ hist[k].draws = 0
            /\ \A a \in Ages : workers_by_age_to_assign_count[a] = 0
            /\ k = Len(syn_workplace_uids)

\* C6: when the anchor's row sums to zero while people remain to be assigned,
\* the slot just handled was still filled: after slot i the group has its
\* anchor and i more members.
C6_ZeroRowSlotFilled ==
    ( /\ pc = "assign_check"
      /\ \A k \in DOMAIN b_prob : b_prob[k] = 0
      /\ hist[Len(hist)].left - Len(new_work_uids) > 0 )
    => Len(new_work_uids) = i + 1

\* C7: at every within-group bracket draw, every bracket (with a column in the
\* matrix) that has nobody left to assign has its column zeroed and has
\* probability 0 in the row used for the draw.
C7_EmptyBracketsZeroed ==
    ( pc = "assign_slots" /\ i < size )
    => \A b \in DOMAIN b_prob :
          WorkersLeftInBracket(workers_by_age_to_assign_count, b) = 0 =>
              /\ \A r \in DOMAIN W : W[r][b] = 0
              /\ b_prob[b] = 0

\* C24: the resampling loop always exits: it is never about to draw again from
\* a distribution that has become all zero, i.e. the loop's copy of the row is
\* never all zero while the bracket last drawn has nobody left.
C24_ResamplingNeverDrawsFromAllZero ==
    ~ ( /\ pc = "assign_resample"
        /\ \A k \in DOMAIN loop_b_prob : loop_b_prob[k] = 0
        /\ WorkersLeftWithPool(workers_by_age_to_assign_count,
                               potential_worker_uids_by_age, bi) = 0 )

\* C25: a step changes the matrix only by setting entries to zero, and only in
\* the column of a bracket with nobody left to assign: every entry in the
\* column of a bracket that still has people keeps its value (also when there
\* are more brackets than columns), and a zeroed column stays zero.
C25_OnlyColumnsOfEmptyBracketsAreZeroed ==
    [][ \A r \in DOMAIN W : \A c \in DOMAIN W[r] :
           /\ W'[r][c] # W[r][c] => W'[r][c] = 0
           /\ WorkersLeftInBracket(workers_by_age_to_assign_count, c) > 0
                 => W'[r][c] = W[r][c] ]_vars

\* ------------------------------------------- the worker pipeline of Pop.generate
\* get_uids_potential_workers, get_workers_by_age_to_assign and the removal of
\* the facility residents, followed by assign_rest_of_workers.

\* range(101) and `a >= 15`: the ages that get a pool.
MinWorkingAge == 15
MaxWorkingAge == 100

\* Employment rates are multiples of 1 / RateUnit.
RateUnit == 2

\* The ages of the people of the population: the workers' ages and one age
\* below the working age.
PopulationAges == {MinWorkingAge - 1} \cup Ages

\* The keys of potential_worker_uids_by_age and
\* potential_worker_ages_left_count, among the ages of the population.
WorkingAges == {a \in PopulationAges : a >= MinWorkingAge /\ a <= MaxWorkingAge}

\* The students of all schools.
Students(schools) == UNION {Range(school) : school \in Range(schools)}

\* RemoveStudents without lines 34-36: the students stay.
KeepStudents(uids, schools) == uids

\* Lines 34-36: the students are popped from the uid -> age map.
RemoveStudents(uids, schools) == uids \ Students(schools)

\* Lines 38-40: the people whose age has no employment rate are popped.
RemoveUnrated(uids, ages, rates) == {u \in uids : ages[u] \in DOMAIN rates}

\* The lists that hold each element of S once (a list after np.random.shuffle).
RECURSIVE Orderings(_)
Orderings(S) ==
    IF S = {} THEN {<<>>}
    ELSE UNION {{<<x>> \o o : o \in Orderings(S \ {x})} : x \in S}

\* Lines 42-54: for each age of `ages` a list of the uids of that age, in any order.
RECURSIVE ShuffledPools(_, _, _)
ShuffledPools(uids, agemap, ages) ==
    IF ages = {} THEN {<<>>}
    ELSE LET a == CHOOSE x \in ages : TRUE
         IN {(a :> o) @@ f : o \in Orderings({u \in uids : agemap[u] = a}),
                             f \in ShuffledPools(uids, agemap, ages \ {a})}

\* spb.get_ids_by_age_dic (pop.py line 248): the uids of the people of age a.
uids_by_age_dic(a) == {u \in DOMAIN age_by_uid_dic : age_by_uid_dic[u] = a}

\* A population of MaxUids people numbered by age, one school, employment rates
\* for the ages from some age on.
InitWorkers ==
    /\ pc = "pool_entry"
    /\ age_by_uid_dic \in {f \in [1 .. MaxPeople -> PopulationAges] :
                              \A u, v \in 1 .. MaxPeople : u < v => f[u] <= f[v]}
    /\ \E S \in SUBSET (1 .. MaxPeople) :
         /\ Cardinality(S) <= 2
         /\ syn_school_uids \in {<<o>> : o \in Orderings(S)}
    /\ \E lo \in PopulationAges : \E r \in 0 .. RateUnit :
         employment_rates = [a \in {x \in PopulationAges : x >= lo} |-> r]
    /\ potential_worker_ages_left_count = <<>>
    /\ workplace_sizes = <<>>
    /\ workers_by_age_to_assign_count = <<>>
    /\ IdleSizes
    /\ IdleAssignLocals
    /\ IdleGraph
    /\ IdleContacts

\* get_uids_potential_workers (workplaces.py lines 10-56), called at pop.py line 249.
GetUidsPotentialWorkers ==
    /\ pc = "pool_entry"
    /\ LET uids == RemoveUnrated(RemoveStudents(DOMAIN age_by_uid_dic, syn_school_uids),
                                 age_by_uid_dic, employment_rates)
       IN /\ potential_worker_uids' = uids
          /\ potential_worker_uids_by_age' \in
                 ShuffledPools(uids, age_by_uid_dic, WorkingAges)
          /\ potential_worker_ages_left_count' =
                 [a \in WorkingAges |->
                     Cardinality({u \in uids : age_by_uid_dic[u] = a})]
    /\ pc' = "pool_counts"
    /\ UNCHANGED <<i, workplace_sizes, sizesVars, graphVars, contactVars,
                   age_by_uid_dic, syn_school_uids, employment_rates,
                   workers_by_age_to_assign_count, W, syn_workplaces,
                   syn_workplace_uids, new_work, new_work_uids, n, size, bindex,
                   b_prob, loop_b_prob, bi, hist>>

\* Line 109: int(employment_rates[a] * len(uids_by_age_dic[a])).
Employed(rate, headcount) == (rate * headcount) \div RateUnit

\* TakeMin with the count of line 109 alone.
TakeCount(c, left) == c

\* Line 112: min(c, potential_worker_ages_left_count[a]).
TakeMin(c, left) == Min(c, left)

\* get_workers_by_age_to_assign (workplaces.py lines 92-115), called at pop.py
\* line 250. The ages below the working age keep the count 0 and are left out.
GetWorkersByAgeToAssign ==
    /\ pc = "pool_counts"
    /\ workers_by_age_to_assign_count' =
           [a \in DOMAIN potential_worker_ages_left_count |->
               IF a \in DOMAIN employment_rates
               THEN TakeMin(Employed(employment_rates[a], Cardinality(uids_by_age_dic(a))),
                            potential_worker_ages_left_count[a])
               ELSE 0]
    /\ pc' = "pool_facilities"
    /\ UNCHANGED <<i, workplace_sizes, sizesVars, graphVars, contactVars, poolVars,
                   potential_worker_uids, potential_worker_uids_by_age, W,
                   syn_workplaces, syn_workplace_uids, new_work, new_work_uids, n,
                   size, bindex, b_prob, loop_b_prob, bi, hist>>

\* list.remove(x)
Remove(s, x) == SelectSeq(s, LAMBDA y : y # x)

\* pop.py lines 254-260, for one resident uid of a facility: a potential worker
\* is taken out of the pool of the age and out of the map, and the age's count
\* goes down by one unless it is 0.
RemoveFacilityResident ==
    /\ pc = "pool_facilities"
    /\ \E uid \in DOMAIN age_by_uid_dic :
         LET aindex == age_by_uid_dic[uid]
         IN /\ uid \in potential_worker_uids
            /\ aindex \in DOMAIN potential_worker_uids_by_age
            /\ potential_worker_uids_by_age' =
                   [potential_worker_uids_by_age EXCEPT ![aindex] = Remove(@, uid)]
            /\ potential_worker_uids' = potential_worker_uids \ {uid}
            /\ workers_by_age_to_assign_count' =
                   IF workers_by_age_to_assign_count[aindex] > 0
                   THEN [workers_by_age_to_assign_count EXCEPT ![aindex] = @ - 1]
                   ELSE workers_by_age_to_assign_count
    /\ UNCHANGED <<pc, i, workplace_sizes, sizesVars, graphVars, contactVars, poolVars,
                   W, syn_workplaces, syn_workplace_uids, new_work, new_work_uids, n,
                   size, bindex, b_prob, loop_b_prob, bi, hist>>

\* pop.py line 257 for a resident in the map whose age has no pool (an age
\* under 15 with an employment rate): the lookup raises KeyError.
ResidentWithoutPool ==
    /\ pc = "pool_facilities"
    /\ \E uid \in potential_worker_uids :
         age_by_uid_dic[uid] \notin DOMAIN potential_worker_uids_by_age
    /\ pc' = "pool_raised"
    /\ UNCHANGED <<i, workplace_sizes, sizesVars, assignVars, graphVars, contactVars,
                   poolVars>>

\* pop.py lines 272-278: the sizes are generated for the people to assign and
\* assign_rest_of_workers is called with a contact matrix. (The calls of lines
\* 263-270 hand workers to schools and facilities; they are outside this model.)
\* The pipeline's own inputs are not read again.
CallAssign ==
    /\ pc = "pool_facilities"
    /\ workplace_sizes' \in Compositions(WorkersLeft(workers_by_age_to_assign_count))
    /\ \E d \in MatrixDims : W' \in [0 .. (d - 1) -> [0 .. (d - 1) -> 0 .. 1]]
    /\ age_by_uid_dic' = <<>>
    /\ syn_school_uids' = <<>>
    /\ employment_rates' = <<>>
    /\ potential_worker_ages_left_count' = <<>>
    /\ pc' = "assign_entry"
    /\ UNCHANGED <<i, sizesVars, graphVars, contactVars,
                   workers_by_age_to_assign_count, potential_worker_uids,
                   potential_worker_uids_by_age, syn_workplaces, syn_workplace_uids,
                   new_work, new_work_uids, n, size, bindex, b_prob, loop_b_prob, bi,
                   hist>>

NextWorkers ==
    \/ GetUidsPotentialWorkers
    \/ GetWorkersByAgeToAssign
    \/ RemoveFacilityResident
    \/ ResidentWithoutPool
    \/ CallAssign
    \/ NextAssign

SpecWorkers == InitWorkers /\ [][NextWorkers]_vars

\* ------------------------------------------------- claims: the worker pipeline
\* The number of times uid is listed in the list s.
Occurrences(s, uid) == Cardinality({k \in DOMAIN s : s[k] = uid})

\* C21: what get_uids_potential_workers returns holds no student of any school
\* and nobody whose age has no employment rate; everyone else of age 15 or
\* more is listed exactly once, in the list of their own age and in no other;
\* and for every age the count left to assign is the length of the age's list.
C21_PoolsExcludeStudentsAndUnrated ==
    pc = "pool_counts" =>
        LET pooled == UNION {Range(potential_worker_uids_by_age[a]) :
                                a \in DOMAIN potential_worker_uids_by_age}
            left   == {u \in DOMAIN age_by_uid_dic :
                          /\ u \notin Students(syn_school_uids)
                          /\ age_by_uid_dic[u] \in DOMAIN employment_rates}
        IN /\ (pooled \cup potential_worker_uids) \cap Students(syn_school_uids) = {}
           /\ \A u \in pooled \cup potential_worker_uids :
                 age_by_uid_dic[u] \in DOMAIN employment_rates
           /\ \A u \in left :
                 age_by_uid_dic[u] >= MinWorkingAge =>
                    \A a \in DOMAIN potential_worker_uids_by_age :
                       Occurrences(potential_worker_uids_by_age[a], u) =
                           IF a = age_by_uid_dic[u] THEN 1 ELSE 0
           /\ \A a \in DOMAIN potential_worker_uids_by_age :
                 potential_worker_ages_left_count[a] =
                     Len(potential_worker_uids_by_age[a])

\* The function has returned for a population with a student of working age
\* whose age has an employment rate, a person who is no student and whose age
\* has no rate, and two people in the pool of one age.
C21_Witness ==
    /\ pc = "pool_counts"
    /\ \E u \in Students(syn_school_uids) :
          /\ age_by_uid_dic[u] >= MinWorkingAge
          /\ age_by_uid_dic[u] \in DOMAIN employment_rates
    /\ \E u \in DOMAIN age_by_uid_dic :
          /\ u \notin Students(syn_school_uids)
          /\ age_by_uid_dic[u] \notin DOMAIN employment_rates
    /\ \E a \in DOMAIN potential_worker_uids_by_age :
          Len(potential_worker_uids_by_age[a]) >= 2

\* C27: from the return of get_workers_by_age_to_assign on, through the removal
\* of the facility residents and every step of assign_rest_of_workers, the count
\* left to assign of every age is at least 0 and at most the length of the
\* age's pool; so an age with a positive count has a uid to take.
C27_CountNeverExceedsPool ==
    pc \notin {"pool_entry", "pool_counts"} =>
        \A a \in DOMAIN potential_worker_uids_by_age :
            /\ 0 <= workers_by_age_to_assign_count[a]
            /\ workers_by_age_to_assign_count[a] <= Len(potential_worker_uids_by_age[a])
            /\ workers_by_age_to_assign_count[a] > 0 =>
                   potential_worker_uids_by_age[a] # <<>>

\* A group has its anchor and another member, and an age still has as many
\* people to assign as its pool holds.
C27_Witness ==
    /\ pc = "assign_slots"
    /\ Len(new_work_uids) >= 2
    /\ \E a \in DOMAIN potential_worker_uids_by_age :
          /\ workers_by_age_to_assign_count[a] > 0
          /\ workers_by_age_to_assign_count[a] = Len(potential_worker_uids_by_age[a])

\* The ages and the uids placed so far, group by group, the group being filled last.
PlacedAges == Flatten(syn_workplaces) \o new_work

\* C28: people are conserved age by age: nobody is placed at the start, and
\* every step keeps what was placed and, for every age, takes off the age's
\* count left to assign exactly the number of people of the age it places (so
\* placed plus left stays the initial count). The age lists and the uid lists
\* are parallel: as many groups, each as long as its counterpart, and every
\* step that places people records, position by position, an age and a uid
\* taken from the pool of that age.
C28_PeopleConservedAndListsParallel ==
    /\ PlacedAges = <<>>
    /\ [][ \A ages0 \in {PlacedAges} : \A uids0 \in {PlacedUids} :
           \A ages1 \in {PlacedAges'} : \A uids1 \in {PlacedUids'} :
              /\ Len(uids1) = Len(ages1)
              /\ Len(uids0) <= Len(uids1)
              /\ SubSeq(uids1, 1, Len(uids0)) = uids0
              /\ SubSeq(ages1, 1, Len(ages0)) = ages0
              /\ \A a \in Ages :
                    workers_by_age_to_assign_count[a]
                        - workers_by_age_to_assign_count'[a]
                      = Cardinality({k \in (Len(ages0) + 1) .. Len(ages1) :
                                        ages1[k] = a})
              /\ \A k \in (Len(uids0) + 1) .. Len(uids1) :
                    uids1[k] \in Range(potential_worker_uids_by_age[ages1[k]])
         ]_vars
    /\ [] ( /\ Len(syn_workplaces) = Len(syn_workplace_uids)
            /\ Len(new_work) = Len(new_work_uids)
            /\ \A k \in DOMAIN syn_workplaces :
                  Len(syn_workplaces[k]) = Len(syn_workplace_uids[k]) )

\* The function has returned groups filled by an anchor pick, by a draw within
\* the group and by the drain, with people of two ages placed.
C28_Witness ==
    /\ pc = "assign_done"
    /\ \E k \in DOMAIN hist : hist[k].drained /\ Len(syn_workplaces[k]) >= 2
    /\ \E k \in DOMAIN hist : ~hist[k].drained /\ Len(syn_workplaces[k]) >= 2
    /\ \E a, b \in Ages :
          a # b /\ Occurrences(PlacedAges, a) > 0 /\ Occurrences(PlacedAges, b) > 0

\* ------------------------------------- create_reduced_contacts_with_group_types
Persons == 1 .. MaxPersons

\* The layer the edges are merged into (the caller's, line 153), and another one.
setting == "LTCF"
other_layer == "H"

\* popdict[uid]['contacts'] with the layer's key missing, or holding the set cs.
ContactsWithout == [l \in {other_layer} |-> {}]
ContactsWith(cs) == [l \in {other_layer, setting} |-> IF l = setting THEN cs ELSE {}]

\* The popdicts passed in: nobody has the layer's key yet, or everybody has it,
\* with no contacts, or with persons 1 and 2 in contact (one way or both ways).
\* A person has the contacts and another attribute (the age).
InitialPopdicts ==
    { [u \in Persons |-> [contacts |-> ContactsWithout, age |-> 0]],
      [u \in Persons |-> [contacts |-> ContactsWith({}), age |-> 0]],
      [u \in Persons |-> [contacts |-> ContactsWith(IF u = 1 THEN {2}
                                                    ELSE IF u = 2 THEN {1} ELSE {}),
                          age |-> 0]],
      [u \in Persons |-> [contacts |-> ContactsWith(IF u = 1 THEN {2} ELSE {}),
                          age |-> 0]] }

\* p_matrix when given: a symmetric 2 x 2 matrix of probabilities, here 0 or 1.
GivenMatrices ==
    {m \in [1 .. 2 -> [1 .. 2 -> 0 .. 1]] : m[1][2] = m[2][1]}

\* Two disjoint lists of distinct uids (numbered group by group), the degree,
\* the probability matrix and the flag.
InitGraph ==
    /\ pc = "graph_call"
    /\ i = 0
    /\ workplace_sizes = <<>>
    /\ workers_by_age_to_assign_count = <<>>
    /\ IdleSizes
    /\ IdleAssignLocals
    /\ IdleContacts
    /\ IdlePool
    /\ \E a \in 0 .. MaxPersons, b \in 0 .. MaxPersons :
         /\ a + b <= MaxPersons
         /\ (a >= 1 /\ b >= 2) => a + b <= MaxBlockNodes
         /\ group_1 = [x \in 1 .. a |-> x]
         /\ group_2 = [x \in 1 .. b |-> a + x]
    /\ average_degree \in 1 .. MaxDegree
    /\ p_matrix \in {None} \cup GivenMatrices
    /\ force_cross_edges \in BOOLEAN
    /\ popdict \in InitialPopdicts
    /\ popdict0 = popdict
    /\ G = {}
    /\ group_1_neighbors = {}
    /\ ncut = 0
    /\ kcut = 0
    /\ group_2_to_group_2_connections = {}

\* Lines 296-303: the nodes of the graph are 0 .. n-1, group 1 first; node x
\* stands for the uid group[x].
n1 == 0 .. (Len(group_1) - 1)
n2 == Len(group_1) .. (Len(group_1) + Len(group_2) - 1)
group == group_1 \o group_2
Uid(x) == group[x + 1]

\* G.neighbors(x)
Neighbors(g, x) == {y \in n1 \cup n2 : {x, y} \in g}

\* nx.complete_graph(m)
complete_graph(m) == {{x, y} : x, y \in 0 .. (m - 1)} \ {{x} : x \in 0 .. (m - 1)}

\* The block of a node: 1 for group 1, 2 for group 2.
Block(x) == IF x \in n1 THEN 1 ELSE 2

\* Lines 329-333: the edge probability of a pair of blocks, as "0", "1" or
\* "between": the given matrix, or average_degree / n on all four blocks.
EdgeProbability(bx, by) ==
    IF p_matrix = None
    THEN (IF average_degree >= Len(group) THEN "1" ELSE "between")
    ELSE (IF p_matrix[bx][by] = 1 THEN "1" ELSE "0")

\* nx.stochastic_block_model(sizes, p_matrix): the graphs it can return. Every
\* pair of nodes is joined independently with the probability of its blocks.
stochastic_block_model ==
    LET pairs  == complete_graph(Len(group))
        sure   == {e \in pairs : \A x, y \in e :
                        x # y => EdgeProbability(Block(x), Block(y)) = "1"}
        never  == {e \in pairs : \A x, y \in e :
                        x # y => EdgeProbability(Block(x), Block(y)) = "0"}
    IN {sure \cup free : free \in SUBSET (pairs \ (sure \cup never))}

\* RaisesValueError with the degree check of line 292 off by one.
RaisesBelowOne(g1, g2, d) == Len(g1) = 0 \/ Len(g2) = 0 \/ d < 1

\* Lines 288-294: the calls that raise ValueError.
RaisesValueError(g1, g2, d) == Len(g1) = 0 \/ Len(g2) = 0 \/ d < 2

\* Lines 288-294: an empty group or a degree under 2 raises; nothing else is done.
Raise ==
    /\ pc = "graph_call"
    /\ RaisesValueError(group_1, group_2, average_degree)
    /\ pc' = "graph_raised"
    /\ UNCHANGED <<i, workplace_sizes, sizesVars, poolVars, assignVars, contactVars, graphVars>>

\* SetDefault with an assignment for the setdefault of line 306: the layer's
\* contact set is replaced by an empty set.
SetDefaultOverwrite(pd) ==
    [u \in DOMAIN pd |->
        [pd[u] EXCEPT !.contacts =
            [l \in DOMAIN @ \cup {setting} |-> IF l = setting THEN {} ELSE @[l]]]]

\* Lines 305-306: every person gets the layer's key.
SetDefault(pd) ==
    [u \in DOMAIN pd |->
        [pd[u] EXCEPT !.contacts =
            IF setting \in DOMAIN pd[u].contacts THEN @
            ELSE [l \in DOMAIN @ \cup {setting} |-> IF l = setting THEN {} ELSE @[l]]]]

\* IsSmallGroup with < for the <= of line 309.
IsSmallGroupStrict(m, d) == m < d

\* Line 309: the group is no larger than the average degree.
IsSmallGroup(m, d) == m <= d

\* Lines 339-343: the group-2 nodes that have a neighbour inside group 2.
Group2WithGroup2Neighbors(g) == {x \in n2 : Neighbors(g, x) \cap n2 # {}}

\* Lines 296-346: the layer's keys are set and the graph is built: complete for
\* a small group, complete (to be cut) for a lone group-2 member, sampled from
\* the stochastic block model otherwise.
BuildGraph ==
    /\ pc = "graph_call"
    /\ ~RaisesValueError(group_1, group_2, average_degree)
    /\ popdict' = SetDefault(popdict)
    /\ i' = 0
    /\ IF IsSmallGroup(Len(group), average_degree)
       THEN /\ G' = complete_graph(Len(group))
            /\ pc' = "graph_merge"
            /\ group_2_to_group_2_connections' = group_2_to_group_2_connections
       ELSE IF Len(group_2) < 2
       THEN /\ G' = complete_graph(Len(group))
            /\ pc' = "graph_lone"
            /\ group_2_to_group_2_connections' = group_2_to_group_2_connections
       ELSE /\ G' \in stochastic_block_model
            /\ group_2_to_group_2_connections' = Group2WithGroup2Neighbors(G')
            /\ pc' = IF Group2WithGroup2Neighbors(G') = {}
                     THEN "graph_add" ELSE "graph_repair"
    /\ UNCHANGED <<workplace_sizes, sizesVars, poolVars, assignVars, contactVars, popdict0, group_1, group_2,
                   average_degree, p_matrix, force_cross_edges, group_1_neighbors, ncut,
                   kcut>>

\* Group1Neighbors without the filter of line 316: every neighbour of the node.
AllNeighbors(g, x) == Neighbors(g, x)

\* Line 316: the neighbours of a node inside group 1.
Group1Neighbors(g, x) == Neighbors(g, x) \cap n1

\* Lines 315-320: the next group-1 node; if it has more than average_degree
\* neighbours in group 1, the surplus is to be cut.
LoneNode ==
    /\ pc = "graph_lone"
    /\ i < Len(group_1)
    /\ group_1_neighbors' = Group1Neighbors(G, i)
    /\ IF Cardinality(Group1Neighbors(G, i)) > average_degree
       THEN /\ ncut' = Cardinality(Group1Neighbors(G, i)) - average_degree
            /\ kcut' = 0
            /\ pc' = "graph_cut"
            /\ i' = i
       ELSE /\ UNCHANGED <<ncut, kcut, pc>>
            /\ i' = i + 1
    /\ UNCHANGED <<workplace_sizes, sizesVars, poolVars, assignVars, contactVars, popdict, popdict0, group_1,
                   group_2, average_degree, p_matrix, force_cross_edges, G,
                   group_2_to_group_2_connections>>

\* Lines 323-326: one cut: a random neighbour still in the list loses its edge
\* to the node.
Cut ==
    /\ pc = "graph_cut"
    /\ kcut < ncut
    /\ \E j \in group_1_neighbors :
         /\ G' = G \ {{i, j}}
         /\ group_1_neighbors' = group_1_neighbors \ {j}
    /\ kcut' = kcut + 1
    /\ UNCHANGED <<pc, i, workplace_sizes, sizesVars, poolVars, assignVars, contactVars, popdict, popdict0,
                   group_1, group_2, average_degree, p_matrix, force_cross_edges, ncut,
                   group_2_to_group_2_connections>>

\* Lines 323 and 315: the cuts of the node are made; on to the next node.
CutDone ==
    /\ pc = "graph_cut"
    /\ kcut >= ncut
    /\ i' = i + 1
    /\ pc' = "graph_lone"
    /\ UNCHANGED <<workplace_sizes, sizesVars, poolVars, assignVars, contactVars, graphVars>>

\* Line 315: the loop over group 1 is over.
LoneDone ==
    /\ pc = "graph_lone"
    /\ i >= Len(group_1)
    /\ pc' = "graph_merge"
    /\ UNCHANGED <<i, workplace_sizes, sizesVars, poolVars, assignVars, contactVars, graphVars>>

\* group_2_neighbors without the filter of lines 348 and 359: every neighbour.
UnfilteredNeighbors(g, x) == Neighbors(g, x)

\* Lines 348 and 359: the neighbours of a group-1 node inside group 2.
group_2_neighbors(g, x) == Neighbors(g, x) \cap n2

\* Lines 346-354: no group-2 node has an edge inside group 2; a group-1 node
\* without a group-2 neighbour gets an edge to a random group-2 node.
AddCrossEdge ==
    /\ pc = "graph_add"
    /\ i < Len(group_1)
    /\ IF group_2_neighbors(G, i) = {}
       THEN \E random_group_2_j \in n2 : G' = G \cup {{i, random_group_2_j}}
       ELSE G' = G
    /\ i' = i + 1
    /\ UNCHANGED <<pc, workplace_sizes, sizesVars, poolVars, assignVars, contactVars, popdict, popdict0, group_1,
                   group_2, average_degree, p_matrix, force_cross_edges,
                   group_1_neighbors, ncut, kcut, group_2_to_group_2_connections>>

\* random_group_2_neighbors without the filter of line 365: every neighbour of j.
EveryNeighborOfJ(g, j) == Neighbors(g, j)

\* Line 365: the neighbours of the group-2 node j inside group 2, read before
\* the new edge is added.
random_group_2_neighbors(g, j) == Neighbors(g, j) \cap n2

\* Lines 357-373: a group-1 node without a group-2 neighbour gets an edge to a
\* random group-2 node j; if j had neighbours inside group 2, its edge to a
\* random one of them is removed.
RepairCrossEdge ==
    /\ pc = "graph_repair"
    /\ i < Len(group_1)
    /\ IF group_2_neighbors(G, i) = {}
       THEN \E random_group_2_j \in n2 :
              IF random_group_2_neighbors(G, random_group_2_j) # {}
              THEN \E random_group_2_neighbor_cut \in
                          random_group_2_neighbors(G, random_group_2_j) :
                     G' = (G \cup {{i, random_group_2_j}})
                             \ {{random_group_2_j, random_group_2_neighbor_cut}}
              ELSE G' = G \cup {{i, random_group_2_j}}
       ELSE G' = G
    /\ i' = i + 1
    /\ UNCHANGED <<pc, workplace_sizes, sizesVars, poolVars, assignVars, contactVars, popdict, popdict0, group_1,
                   group_2, average_degree, p_matrix, force_cross_edges,
                   group_1_neighbors, ncut, kcut, group_2_to_group_2_connections>>

\* Lines 347 and 358: the loop over group 1 is over.
RepairDone ==
    /\ pc \in {"graph_add", "graph_repair"}
    /\ i >= Len(group_1)
    /\ pc' = "graph_merge"
    /\ UNCHANGED <<i, workplace_sizes, sizesVars, poolVars, assignVars, contactVars, graphVars>>

\* MergeEdges without line 383: an edge is added to its first end only.
MergeEdgesOneWay(pd, g) ==
    [u \in DOMAIN pd |->
        [pd[u] EXCEPT !.contacts[setting] =
            @ \cup {Uid(y) : y \in {z \in n1 \cup n2 :
                                      \E x \in n1 \cup n2 : {x, z} \in g /\ x < z
                                                             /\ Uid(x) = u}}]]

\* Lines 375-383: the contacts of uid u after every edge of g is added both ways.
MergeEdges(pd, g) ==
    [u \in DOMAIN pd |->
        [pd[u] EXCEPT !.contacts[setting] =
            @ \cup {Uid(y) : y \in {z \in n1 \cup n2 :
                                      \E x \in n1 \cup n2 : {x, z} \in g /\ x # z
                                                             /\ Uid(x) = u}}]]

\* Lines 375-385: the edges are merged into the layer; return.
Merge ==
    /\ pc = "graph_merge"
    /\ popdict' = MergeEdges(popdict, G)
    /\ pc' = "graph_done"
    /\ UNCHANGED <<i, workplace_sizes, sizesVars, poolVars, assignVars, contactVars, popdict0, group_1, group_2,
                   average_degree, p_matrix, force_cross_edges, G, group_1_neighbors,
                   ncut, kcut, group_2_to_group_2_connections>>

NextGraph ==
    \/ Raise
    \/ BuildGraph
    \/ LoneNode
    \/ Cut
    \/ CutDone
    \/ LoneDone
    \/ AddCrossEdge
    \/ RepairCrossEdge
    \/ RepairDone
    \/ Merge

SpecGraph == InitGraph /\ [][NextGraph]_vars

\* -------------------------- claims: create_reduced_contacts_with_group_types
\* C8: with group_1 empty, group_2 empty or average_degree < 2 the call raises
\* ValueError: it can do nothing but raise, no graph is built and popdict is
\* as it was passed in.
C8_RaisesOnEmptyGroupOrLowDegree ==
    (Len(group_1) = 0 \/ Len(group_2) = 0 \/ average_degree < 2) =>
        /\ pc \in {"graph_call", "graph_raised"}
        /\ pc = "graph_call" => ENABLED Raise
        /\ G = {}
        /\ popdict = popdict0

\* The call has raised for average_degree = 1 with both groups populated.
C8_Witness ==
    /\ pc = "graph_raised"
    /\ average_degree = 1
    /\ Len(group_1) > 0
    /\ Len(group_2) > 0

\* The layer's contact sets were empty (or not there) when the call was made.
NoContactsBefore ==
    \A u \in Persons :
        setting \in DOMAIN popdict0[u].contacts => popdict0[u].contacts[setting] = {}

\* C9: when |group_1| + |group_2| <= average_degree and the layer's contact sets
\* started empty, on return every member's contact set is exactly the other
\* members of the two groups.
C9_SmallGroupIsComplete ==
    ( /\ pc = "graph_done"
      /\ Len(group_1) + Len(group_2) <= average_degree
      /\ NoContactsBefore )
    => \A u \in Range(group_1) \cup Range(group_2) :
          popdict[u].contacts[setting] = (Range(group_1) \cup Range(group_2)) \ {u}

\* A return for three people and an average degree of three.
C9_Witness ==
    /\ pc = "graph_done"
    /\ Len(group_1) + Len(group_2) = 3
    /\ average_degree = 3
    /\ NoContactsBefore
    /\ popdict[1].contacts[setting] = {2, 3}

\* C10: with a lone group-2 member and more people than average_degree, in the
\* final graph every group-1 node is adjacent to the lone member and has at
\* most average_degree neighbours inside group 1.
C10_LoneMemberKeepsEveryEdge ==
    ( /\ pc \in {"graph_merge", "graph_done"}
      /\ Len(group_2) = 1
      /\ Len(group_1) + Len(group_2) > average_degree )
    => \A x \in 0 .. (Len(group_1) - 1) :
          /\ {x, Len(group_1)} \in G
          /\ Cardinality({y \in 0 .. (Len(group_1) - 1) : {x, y} \in G}) <= average_degree

\* A return in the lone-member regime after edges inside group 1 were cut.
C10_Witness ==
    /\ pc = "graph_done"
    /\ Len(group_2) = 1
    /\ Len(group_1) + Len(group_2) > average_degree
    /\ \E x, y \in 0 .. (Len(group_1) - 1) : x # y /\ {x, y} \notin G

\* C11: with force_cross_edges = True, in every size regime and for every graph
\* sampled from the stochastic block model, on return every group-1 member has
\* at least one group-2 member in its contact set of the layer.
C11_EveryGroup1MemberHasCrossContact ==
    ( pc = "graph_done" /\ force_cross_edges )
    => \A u \in Range(group_1) :
          popdict[u].contacts[setting] \cap Range(group_2) # {}

\* A return with force_cross_edges = True in the general regime when the block
\* model could not draw a cross-group edge (the probability between the groups
\* is 0) while group 2 had edges inside: every cross-group contact was forced.
C11_Witness ==
    /\ pc = "graph_done"
    /\ force_cross_edges
    /\ Len(group_2) >= 2
    /\ Len(group_1) >= 2
    /\ Len(group_1) + Len(group_2) > average_degree
    /\ p_matrix # None
    /\ p_matrix[1][2] = 0
    /\ p_matrix[2][2] = 1
    /\ \A u \in Range(group_1) :
          popdict[u].contacts[setting] \cap Range(group_2) # {}

\* The layer's contact relation of a popdict is symmetric (a missing key is an
\* empty contact set).
LayerContacts(pd, u) ==
    IF setting \in DOMAIN pd[u].contacts THEN pd[u].contacts[setting] ELSE {}

LayerIsSymmetric(pd) ==
    \A u, v \in DOMAIN pd : v \in LayerContacts(pd, u) <=> u \in LayerContacts(pd, v)

\* C12: the edges are merged symmetrically: if the layer's contact relation was
\* symmetric before the call it is symmetric on return, and every contact of
\* the layer present before the call is present at every later point.
C12_MergeIsSymmetricAndKeepsContacts ==
    /\ \A u \in DOMAIN popdict0 : LayerContacts(popdict0, u) \subseteq LayerContacts(popdict, u)
    /\ ( pc = "graph_done" /\ LayerIsSymmetric(popdict0) ) => LayerIsSymmetric(popdict)

\* A return that added contacts to a layer in which persons 1 and 2 were
\* already in contact, both ways.
C12_Witness ==
    /\ pc = "graph_done"
    /\ LayerContacts(popdict0, 1) = {2}
    /\ LayerContacts(popdict0, 2) = {1}
    /\ \E u \in DOMAIN popdict : Cardinality(LayerContacts(popdict, u)) >= 2
    /\ \E u \in DOMAIN popdict : LayerContacts(popdict0, u) = {} /\ LayerContacts(popdict, u) # {}

\* C22: the repair is applied only when force_cross_edges is True: with the
\* flag False no step of the repair loops adds or removes an edge, so the
\* sampled graph is merged as it was drawn.
C22_RepairOnlyWhenForced ==
    [][(pc \in {"graph_add", "graph_repair"} /\ ~force_cross_edges) => G' = G]_vars

\* The number of edges of g at node x.
Degree(g, x) == Cardinality(Neighbors(g, x))

\* C23: a step of the repair loops for a group-1 node with no neighbour in
\* group 2 adds exactly one edge, from the node to a group-2 node j, and removes
\* at most one edge, which joins j and another group-2 node (so no cross-group
\* edge and no edge inside group 1 is removed); j's degree is unchanged when j
\* had a neighbour inside group 2 and one more otherwise; the number of edges
\* does not go down.
C23_RepairStepAddsOneEdgeAndCutsInsideGroup2 ==
    [][ ( /\ pc \in {"graph_add", "graph_repair"}
          /\ i' = i + 1
          /\ Neighbors(G, i) \cap n2 = {} )
        => \E j \in n2 :
              /\ G' \ G = {{i, j}}
              /\ Cardinality(G \ G') <= 1
              /\ \A e \in G \ G' : \E x \in n2 \ {j} : e = {j, x}
              /\ Degree(G', j) = IF Neighbors(G, j) \cap n2 # {}
                                 THEN Degree(G, j)
                                 ELSE Degree(G, j) + 1
              /\ Cardinality(G') >= Cardinality(G) ]_vars

\* A repair step has acted and removed an edge: some group-2 nodes had
\* neighbours inside group 2 in the sampled graph, none of them has one now,
\* and the group-1 node just handled has a neighbour in group 2.
C23_Witness ==
    /\ pc = "graph_repair"
    /\ i >= 1
    /\ group_2_to_group_2_connections # {}
    /\ \A y \in group_2_to_group_2_connections : Neighbors(G, y) \cap n2 = {}
    /\ \E j \in n2 : {i - 1, j} \in G

\* C29: a call that raises leaves popdict as it was passed in: with an empty
\* group or average_degree < 2, no person gains or loses a layer key and no
\* contact set of any layer is modified, at any point of the call.
C29_RaisingCallLeavesPopdictUntouched ==
    (Len(group_1) = 0 \/ Len(group_2) = 0 \/ average_degree < 2) =>
        /\ DOMAIN popdict = DOMAIN popdict0
        /\ \A u \in DOMAIN popdict0 :
              /\ DOMAIN popdict[u].contacts = DOMAIN popdict0[u].contacts
              /\ \A l \in DOMAIN popdict0[u].contacts :
                    popdict[u].contacts[l] = popdict0[u].contacts[l]

\* The call has raised for an empty group 2 and a popdict without the layer's key.
C29_Witness ==
    /\ pc = "graph_raised"
    /\ Len(group_1) > 0
    /\ Len(group_2) = 0
    /\ \A u \in DOMAIN popdict : setting \notin DOMAIN popdict[u].contacts

\* The positions of a call of create_reduced_contacts_with_group_types.
GraphPositions ==
    {"graph_call", "graph_raised", "graph_merge", "graph_lone", "graph_cut",
     "graph_add", "graph_repair", "graph_done"}

\* C30: at every point of a call, compared with the popdict passed in: the
\* same people; no attribute other than the contacts is changed; no layer other
\* than the named one is added or changed; no contact of the named layer is
\* removed; a contact added joins two members of the groups; a person outside
\* both groups has the contacts they had, or gained an empty set for the layer.
C30_OnlyAddsContactsAmongTheGroups ==
    pc \in GraphPositions =>
        /\ DOMAIN popdict = DOMAIN popdict0
        /\ \A u \in DOMAIN popdict0 :
              /\ DOMAIN popdict[u] = DOMAIN popdict0[u]
              /\ \A f \in DOMAIN popdict0[u] \ {"contacts"} :
                    popdict[u][f] = popdict0[u][f]
              /\ DOMAIN popdict0[u].contacts \subseteq DOMAIN popdict[u].contacts
              /\ DOMAIN popdict[u].contacts \subseteq
                     DOMAIN popdict0[u].contacts \cup {setting}
              /\ \A l \in DOMAIN popdict0[u].contacts \ {setting} :
                    popdict[u].contacts[l] = popdict0[u].contacts[l]
              /\ LayerContacts(popdict0, u) \subseteq LayerContacts(popdict, u)
              /\ LayerContacts(popdict, u) # LayerContacts(popdict0, u) =>
                    /\ u \in Range(group)
                    /\ LayerContacts(popdict, u) \ LayerContacts(popdict0, u)
                           \subseteq Range(group)

\* The call has returned: a member of a group gained a contact, a person
\* outside both groups gained the layer's key, and a contact present before the
\* call is still there.
C30_Witness ==
    /\ pc = "graph_done"
    /\ \E u \in Range(group) : LayerContacts(popdict, u) # LayerContacts(popdict0, u)
    /\ \E u \in DOMAIN popdict \ Range(group) :
          /\ setting \notin DOMAIN popdict0[u].contacts
          /\ setting \in DOMAIN popdict[u].contacts

\* ------------------------------- make_contacts_from_microstructure_objects
\* Line 21: the default of average_LTCF_degree. Line 100: the default cap of
\* the workplace layer.
DefaultLTCFDegree == 20
DefaultMaxContactsW == 20

\* Python's None, for a group id that is otherwise an index or a flag.
NoId == -1

\* Lines 104-108: the layers every person gets a contact set for.
layer_keys(ltcf) == IF ltcf THEN {"H", "S", "W", "C", "LTCF"} ELSE {"H", "S", "W", "C"}

\* Lines 116-137: a person as first entered in popdict (the attributes that no
\* layer of the model reads or writes, age, sex, loc and the school fields, are
\* left out).
NewPerson(ltcf) ==
    [contacts |-> [l \in layer_keys(ltcf) |-> {}],
     hhid |-> NoId, wpid |-> NoId, snfid |-> NoId, snf_res |-> NoId, snf_staff |-> NoId]

\* The lists of groups of consecutive uids that cover first .. last, largest
\* group first.
RECURSIVE Groupings(_, _, _)
Groupings(first, last, maxlen) ==
    IF first > last THEN {<<>>}
    ELSE UNION {{<<[k \in 1 .. sz |-> first + k - 1]>> \o g :
                    g \in Groupings(first + sz, last, sz)} :
                sz \in 1 .. Min(maxlen, last - first + 1)}

\* The index enumerate() gives the k-th group of a list.
GroupId(k) == k - 1

\* The last group of a list that has uid as a member (0 when none has): the one
\* whose pass of a loop over the groups is the last to write the person.
LastGroupOf(groups, uid) ==
    LET ks == {k \in DOMAIN groups : uid \in Range(groups[k])}
    IN IF ks = {} THEN 0 ELSE CHOOSE k \in ks : \A j \in ks : j <= k

\* Clique without the remove() of lines 174 and 256.
CliqueWithSelf(members, uid) == Range(members)

\* Lines 173-174 and 255-256: set(group) with uid removed.
Clique(members, uid) == Range(members) \ {uid}

\* The population is Persons; its first f people are in facilities (at most
\* MaxFacilities of them, each with its residents first and its staff after
\* them), the others live in households and work in workplaces of at most
\* MaxWorkplace people. The school lists are empty, so that the school loop
\* (lines 183-229) has no pass. use_two_group_reduction and the degree are
\* inputs only when there is a facility to read them for, the cap only when
\* max_contacts is given. popdict is as lines 116-137 leave it.
InitContacts ==
    /\ IdlePool
    /\ pc = "contacts_ltcf"
    /\ workplace_sizes = <<>>
    /\ workers_by_age_to_assign_count = <<>>
    /\ IdleSizes
    /\ IdleAssignLocals
    /\ use_ltcf \in BOOLEAN
    /\ \E f \in 0 .. MaxPersons :
         /\ ~use_ltcf => f = 0
         /\ use_two_group_reduction \in IF f >= 1 THEN BOOLEAN ELSE {FALSE}
         /\ average_degree \in IF use_two_group_reduction
                               THEN 1 .. MaxDegree ELSE {DefaultLTCFDegree}
         /\ \E g \in Groupings(1, f, f) :
              /\ Len(g) <= MaxFacilities
              /\ \E split \in [DOMAIN g -> 0 .. MaxPersons] :
                   /\ \A k \in DOMAIN g : split[k] <= Len(g[k])
                   /\ use_two_group_reduction =>
                        \A k \in DOMAIN g :
                            (split[k] >= 1 /\ Len(g[k]) - split[k] >= 2)
                                => Len(g[k]) <= MaxBlockNodes
                   /\ facilities_by_uids = [k \in DOMAIN g |-> SubSeq(g[k], 1, split[k])]
                   /\ facilities_staff_uids =
                          [k \in DOMAIN g |-> SubSeq(g[k], split[k] + 1, Len(g[k]))]
         /\ workplaces_by_uids \in Groupings(f + 1, MaxPersons, MaxWorkplace)
         /\ homes_by_uids \in Groupings(f + 1, MaxPersons, MaxPersons)
    /\ do_trim \in BOOLEAN
    /\ max_contacts \in IF do_trim THEN 1 .. MaxCap ELSE {DefaultMaxContactsW}
    /\ popdict = [u \in Persons |-> NewPerson(use_ltcf)]
    /\ popdict0 = <<>>
    /\ group_1 = <<>>
    /\ group_2 = <<>>
    /\ p_matrix = None
    /\ force_cross_edges = TRUE
    /\ G = {}
    /\ group_1_neighbors = {}
    /\ ncut = 0
    /\ kcut = 0
    /\ group_2_to_group_2_connections = {}
    /\ nf = 0
    /\ nw = 0
    /\ nu = 0

\* Lines 144-150: the residents and the staff of facility number f are marked.
MarkFacility(pd, facility, facility_staff, f) ==
    [u \in DOMAIN pd |->
        LET res == IF u \in Range(facility)
                   THEN [pd[u] EXCEPT !.snf_res = 1, !.snfid = f] ELSE pd[u]
        IN IF u \in Range(facility_staff)
           THEN [res EXCEPT !.snf_staff = 1, !.snfid = f] ELSE res]

\* FacilityMembers without the union of lines 161 and 166: the residents only.
ResidentsOnly(facility, facility_staff) == Range(facility)

\* Lines 160-161 and 165-166: set(facility).union(set(facility_staff)).
FacilityMembers(facility, facility_staff) == Range(facility) \cup Range(facility_staff)

\* Lines 141-150 and 157-167: a facility is read; every resident and every
\* member of staff gets everybody else of the facility as contacts.
FacilityClique ==
    /\ pc = "contacts_ltcf"
    /\ use_ltcf
    /\ ~use_two_group_reduction
    /\ nf < Len(facilities_by_uids)
    /\ LET facility       == facilities_by_uids[nf + 1]
           facility_staff == facilities_staff_uids[nf + 1]
           marked         == MarkFacility(popdict, facility, facility_staff, nf)
       IN popdict' =
            [u \in DOMAIN marked |->
                IF u \in Range(facility) \cup Range(facility_staff)
                THEN [marked[u] EXCEPT !.contacts["LTCF"] =
                          FacilityMembers(facility, facility_staff) \ {u}]
                ELSE marked[u]]
    /\ nf' = nf + 1
    /\ UNCHANGED <<pc, i, workplace_sizes, sizesVars, poolVars, assignVars, popdict0, group_1,
                   group_2, average_degree, p_matrix, force_cross_edges, G,
                   group_1_neighbors, ncut, kcut, group_2_to_group_2_connections,
                   homes_by_uids, workplaces_by_uids, facilities_by_uids,
                   facilities_staff_uids, use_ltcf, use_two_group_reduction, do_trim,
                   max_contacts, nw, nu>>

\* Lines 141-155: a facility is read and create_reduced_contacts_with_group_types
\* is called with its residents, its staff, the 'LTCF' layer, the degree and
\* force_cross_edges = True (p_matrix keeps its default).
CallReduced ==
    /\ pc = "contacts_ltcf"
    /\ use_ltcf
    /\ use_two_group_reduction
    /\ nf < Len(facilities_by_uids)
    /\ popdict' = MarkFacility(popdict, facilities_by_uids[nf + 1],
                               facilities_staff_uids[nf + 1], nf)
    /\ popdict0' = popdict'
    /\ group_1' = facilities_by_uids[nf + 1]
    /\ group_2' = facilities_staff_uids[nf + 1]
    /\ p_matrix' = None
    /\ force_cross_edges' = TRUE
    /\ G' = {}
    /\ group_1_neighbors' = {}
    /\ ncut' = 0
    /\ kcut' = 0
    /\ group_2_to_group_2_connections' = {}
    /\ i' = 0
    /\ pc' = "graph_call"
    /\ UNCHANGED <<workplace_sizes, sizesVars, poolVars, assignVars, average_degree, contactVars>>

\* Lines 153 and 141: the call has returned; on to the next facility.
ReturnReduced ==
    /\ pc = "graph_done"
    /\ use_ltcf
    /\ nf' = nf + 1
    /\ pc' = "contacts_ltcf"
    /\ UNCHANGED <<i, workplace_sizes, sizesVars, poolVars, assignVars, graphVars, homes_by_uids,
                   workplaces_by_uids, facilities_by_uids, facilities_staff_uids,
                   use_ltcf, use_two_group_reduction, do_trim, max_contacts, nw, nu>>

\* Lines 171-175 and 253-259: the loop over the groups of a clique layer; the
\* last group that lists a person writes the person's contacts and group id.
CliqueContacts(groups, uid) ==
    Clique(groups[LastGroupOf(groups, uid)], uid)

\* Lines 171-175: every member of a household gets the others as contacts, and
\* the household's index as hhid. (Lines 183-229: no school, no pass.)
Households ==
    /\ pc = "contacts_ltcf"
    /\ ~use_ltcf \/ nf >= Len(facilities_by_uids)
    /\ popdict' =
         [u \in DOMAIN popdict |->
            IF LastGroupOf(homes_by_uids, u) = 0 THEN popdict[u]
            ELSE [popdict[u] EXCEPT !.contacts["H"] = CliqueContacts(homes_by_uids, u),
                                    !.hhid = GroupId(LastGroupOf(homes_by_uids, u))]]
    /\ pc' = "contacts_work"
    /\ UNCHANGED <<i, workplace_sizes, sizesVars, poolVars, assignVars, popdict0, group_1,
                   group_2, average_degree, p_matrix, force_cross_edges, G,
                   group_1_neighbors, ncut, kcut, group_2_to_group_2_connections,
                   contactVars>>

\* Lines 252-259: without a cap every worker gets the others of the workplace
\* as contacts, and the workplace's index as wpid.
UncappedWorkplaces ==
    /\ pc = "contacts_work"
    /\ ~do_trim
    /\ popdict' =
         [u \in DOMAIN popdict |->
            IF LastGroupOf(workplaces_by_uids, u) = 0 THEN popdict[u]
            ELSE [popdict[u] EXCEPT !.contacts["W"] = CliqueContacts(workplaces_by_uids, u),
                                    !.wpid = GroupId(LastGroupOf(workplaces_by_uids, u))]]
    /\ pc' = "contacts_done"
    /\ UNCHANGED <<i, workplace_sizes, sizesVars, poolVars, assignVars, popdict0, group_1,
                   group_2, average_degree, p_matrix, force_cross_edges, G,
                   group_1_neighbors, ncut, kcut, group_2_to_group_2_connections,
                   contactVars>>

\* CoMembers without the remove() of line 240: the worker stays a candidate.
AllMembers(workplace, uid) == Range(workplace)

\* Lines 239-240: the other members of the worker's workplace.
CoMembers(workplace, uid) == Range(workplace) \ {uid}

\* max_W_size without the division of line 234.
WholeCap == max_contacts

\* Line 234: the number of contacts a worker samples.
max_W_size == max_contacts \div 2

\* Lines 241-242: the sets np.random.choice(..., replace=False) can keep.
SampledContacts(uids) ==
    IF Cardinality(uids) > max_W_size
    THEN {c \in SUBSET uids : Cardinality(c) = max_W_size}
    ELSE {uids}

\* Lines 237-246: with a cap, the next worker of the next workplace keeps a
\* sample of the other members as contacts, and the workplace's index as wpid.
SampleWorker ==
    /\ pc = "contacts_work"
    /\ do_trim
    /\ nw < Len(workplaces_by_uids)
    /\ LET workplace == workplaces_by_uids[nw + 1]
           uid       == workplace[nu + 1]
       IN /\ \E uids \in SampledContacts(CoMembers(workplace, uid)) :
                popdict' = [popdict EXCEPT ![uid].contacts["W"] = uids,
                                           ![uid].wpid = nw]
          /\ IF nu + 1 < Len(workplace)
             THEN nu' = nu + 1 /\ nw' = nw
             ELSE nu' = 0 /\ nw' = nw + 1
    /\ UNCHANGED <<pc, i, workplace_sizes, sizesVars, poolVars, assignVars, popdict0, group_1,
                   group_2, average_degree, p_matrix, force_cross_edges, G,
                   group_1_neighbors, ncut, kcut, group_2_to_group_2_connections,
                   homes_by_uids, workplaces_by_uids, facilities_by_uids,
                   facilities_staff_uids, use_ltcf, use_two_group_reduction, do_trim,
                   max_contacts, nf>>

\* Lines 249-251 from person uid on: every contact of the person gets the
\* person as a contact, person after person in the order of popdict's keys.
RECURSIVE PairFrom(_, _)
PairFrom(pd, uid) ==
    IF uid \notin DOMAIN pd THEN pd
    ELSE PairFrom([c \in DOMAIN pd |->
                      IF c \in pd[uid].contacts["W"]
                      THEN [pd[c] EXCEPT !.contacts["W"] = @ \cup {uid}]
                      ELSE pd[c]],
                  uid + 1)

\* PairBack without lines 249-251.
NoPairBack(pd) == pd

\* Lines 249-251: the pairing contacts are added back in.
PairBack(pd) == PairFrom(pd, 1)

\* Lines 248-251 and 261-262: the workplaces are sampled; the reverse of every
\* contact kept is added, and popdict is returned.
PairContactsBack ==
    /\ pc = "contacts_work"
    /\ do_trim
    /\ nw >= Len(workplaces_by_uids)
    /\ popdict' = PairBack(popdict)
    /\ pc' = "contacts_done"
    /\ UNCHANGED <<i, workplace_sizes, sizesVars, poolVars, assignVars, popdict0, group_1,
                   group_2, average_degree, p_matrix, force_cross_edges, G,
                   group_1_neighbors, ncut, kcut, group_2_to_group_2_connections,
                   contactVars>>

NextContacts ==
    \/ FacilityClique
    \/ CallReduced
    \/ NextGraph
    \/ ReturnReduced
    \/ Households
    \/ UncappedWorkplaces
    \/ SampleWorker
    \/ PairContactsBack

SpecContacts == InitContacts /\ [][NextContacts]_vars

\* ------------------------- claims: make_contacts_from_microstructure_objects
\* The contact relation of a layer is symmetric.
SymmetricLayer(layer) ==
    \A u, v \in DOMAIN popdict :
        v \in popdict[u].contacts[layer] <=> u \in popdict[v].contacts[layer]

\* C13: after make_contacts_from_microstructure_objects returns, no person is
\* in that person's own contact set in any layer, with and without a cap on the
\* workplaces and in both LTCF modes (every group list of the inputs has a uid
\* at most once, and residents and staff are disjoint).
C13_NobodyContactsThemselves ==
    pc = "contacts_done" =>
        \A u \in DOMAIN popdict : \A l \in DOMAIN popdict[u].contacts :
            u \notin popdict[u].contacts[l]

\* A return with a cap under which somebody had to sample, after the two-group
\* reduction gave a facility its contacts, with a household of two or more.
C13_Witness ==
    /\ pc = "contacts_done"
    /\ do_trim
    /\ max_W_size >= 1
    /\ \E k \in DOMAIN workplaces_by_uids : Len(workplaces_by_uids[k]) - 1 > max_W_size
    /\ use_ltcf
    /\ use_two_group_reduction
    /\ \E u \in DOMAIN popdict : popdict[u].contacts["LTCF"] # {}
    /\ \E u \in DOMAIN popdict : popdict[u].contacts["H"] # {}

\* C14: after the function returns, the contact relation of the household
\* layer, of the workplace layer without a cap and of the LTCF layer in
\* full-clique mode is symmetric (every person of the inputs is in at most one
\* group of a layer).
C14_UncappedLayersAreSymmetric ==
    pc = "contacts_done" =>
        /\ SymmetricLayer("H")
        /\ ~do_trim => SymmetricLayer("W")
        /\ (use_ltcf /\ ~use_two_group_reduction) => SymmetricLayer("LTCF")

\* A return without a cap and in full-clique mode, for a facility with
\* residents and staff, a household and a workplace of two or more.
C14_Witness ==
    /\ pc = "contacts_done"
    /\ ~do_trim
    /\ use_ltcf
    /\ ~use_two_group_reduction
    /\ Len(facilities_by_uids) = 1
    /\ Len(facilities_by_uids[1]) >= 1
    /\ Len(facilities_staff_uids[1]) >= 1
    /\ \E u \in DOMAIN popdict : popdict[u].contacts["H"] # {}
    /\ \E u \in DOMAIN popdict : popdict[u].contacts["W"] # {}

\* C15: with a cap, after the pairing-back pass every contact kept by a worker's
\* sample has its reverse: the workplace contact relation is symmetric, for
\* every workplace size, every cap and every outcome of the sampling.
C15_CappedWorkplacesAreSymmetric ==
    ( pc = "contacts_done" /\ do_trim ) => SymmetricLayer("W")

\* A return with a cap after which a worker has more contacts than were
\* sampled: the pass gave the worker the reverse of somebody else's sample.
C15_Witness ==
    /\ pc = "contacts_done"
    /\ do_trim
    /\ max_W_size >= 1
    /\ \E u \in DOMAIN popdict : Cardinality(popdict[u].contacts["W"]) > max_W_size

\* C16: with a cap c on the workplace contacts, after the pairing-back pass no
\* person has more than c workplace contacts, for every workplace size.
C16_NobodyExceedsTheCap ==
    ( pc = "contacts_done" /\ do_trim ) =>
        \A u \in DOMAIN popdict : Cardinality(popdict[u].contacts["W"]) <= max_contacts

\* C17: in the clique layers (households; workplaces without a cap; LTCF when
\* use_two_group_reduction is False) every member's contact set is exactly the
\* other members of the member's group (for LTCF the residents and the staff of
\* the facility), and the member's group id is the index of the group in the
\* input list.
C17_CliqueLayersListTheOtherMembers ==
    pc = "contacts_done" =>
        /\ \A k \in DOMAIN homes_by_uids : \A u \in Range(homes_by_uids[k]) :
              /\ popdict[u].contacts["H"] = Range(homes_by_uids[k]) \ {u}
              /\ popdict[u].hhid = k - 1
        /\ ~do_trim =>
              \A k \in DOMAIN workplaces_by_uids : \A u \in Range(workplaces_by_uids[k]) :
                  /\ popdict[u].contacts["W"] = Range(workplaces_by_uids[k]) \ {u}
                  /\ popdict[u].wpid = k - 1
        /\ (use_ltcf /\ ~use_two_group_reduction) =>
              \A k \in DOMAIN facilities_by_uids :
                  \A u \in Range(facilities_by_uids[k]) \cup Range(facilities_staff_uids[k]) :
                      /\ popdict[u].contacts["LTCF"] =
                             (Range(facilities_by_uids[k])
                                \cup Range(facilities_staff_uids[k])) \ {u}
                      /\ popdict[u].snfid = k - 1

\* A return without a cap and in full-clique mode for a facility with a
\* resident and a member of staff, and households of which the first has two
\* or more people and the last a single one.
C17_Witness ==
    /\ pc = "contacts_done"
    /\ ~do_trim
    /\ use_ltcf
    /\ ~use_two_group_reduction
    /\ Len(facilities_by_uids) = 1
    /\ Len(facilities_by_uids[1]) >= 1
    /\ Len(facilities_staff_uids[1]) >= 1
    /\ Len(homes_by_uids) >= 2
    /\ Len(homes_by_uids[1]) >= 2
    /\ Len(homes_by_uids[Len(homes_by_uids)]) = 1
    /\ \E u \in Range(homes_by_uids[Len(homes_by_uids)]) : popdict[u].contacts["H"] = {}

\* C26: with a cap, when every workplace has been sampled and before the
\* contacts are paired back, each worker of a workplace of n people has exactly
\* min(n - 1, floor(cap / 2)) workplace contacts, all of them other members of
\* the worker's own workplace (all the other members when n - 1 <= floor(cap / 2)).
C26_WorkersSampleHalfTheCapAmongCoWorkers ==
    ( pc = "contacts_work" /\ do_trim /\ nw >= Len(workplaces_by_uids) ) =>
        \A w \in DOMAIN workplaces_by_uids :
            \A uid \in Range(workplaces_by_uids[w]) :
                LET others == Range(workplaces_by_uids[w]) \ {uid}
                    half   == max_contacts \div 2
                IN /\ popdict[uid].contacts["W"] \subseteq others
                   /\ Cardinality(popdict[uid].contacts["W"]) =
                          (IF Cardinality(others) < half
                           THEN Cardinality(others) ELSE half)
                   /\ Cardinality(others) <= half =>
                          popdict[uid].contacts["W"] = others

\* Every workplace has been sampled, under a cap of 2 or more; one workplace
\* has more other members than half the cap, another has not.
C26_Witness ==
    /\ pc = "contacts_work"
    /\ do_trim
    /\ nw >= Len(workplaces_by_uids)
    /\ max_contacts >= 2
    /\ \E w \in DOMAIN workplaces_by_uids :
          Len(workplaces_by_uids[w]) - 1 > max_contacts \div 2
    /\ \E w \in DOMAIN workplaces_by_uids :
          /\ Len(workplaces_by_uids[w]) >= 2
          /\ Len(workplaces_by_uids[w]) - 1 <= max_contacts \div 2

\* ------------------------------------ claims: generate_workplace_sizes, again
\* Two lists hold the same values the same number of times.
SameMultiset(s, t) ==
    /\ Len(s) = Len(t)
    /\ \A v \in Range(s) \cup Range(t) :
          Cardinality({k \in DOMAIN s : s[k] = v}) = Cardinality({k \in DOMAIN t : t[k] = v})

\* C20: on return, the list holds the sizes drawn, each as drawn, but for the
\* last one drawn, which after an overshoot is reduced by the overshoot (to the
\* headcount that remained before its draw); hence every size returned is >= 1
\* and a headcount of 1 returns exactly one group of size 1.
C20_OnlyTheLastSizeIsCorrected ==
    [][ ( pc = "sizes_loop" /\ pc' = "sizes_done" ) =>
          LET last     == Len(workplace_sizes)
              expected == IF nworkers < 0
                          THEN [workplace_sizes EXCEPT ![last] = @ + nworkers]
                          ELSE workplace_sizes
          IN /\ SameMultiset(workplace_sizes', expected)
             /\ \A k \in DOMAIN workplace_sizes' : workplace_sizes'[k] >= 1
             /\ SumOver(workers_by_age_to_assign_count, Ages) = 1
                    => workplace_sizes' = <<1>> ]_vars

\* A return for a headcount of 1 after a size of 3 was drawn.
C20_Witness ==
    /\ pc = "sizes_done"
    /\ SumOver(workers_by_age_to_assign_count, Ages) = 1
    /\ nworkers = -2
    /\ workplace_sizes = <<1>>

====
